---- MODULE Spec2Model ----
(***************************************************************************)
(* Rock-Paper-Scissors with a first-order Markov opponent                  *)
(* (src/markov_chains.py).  The model covers the game core: check_result,  *)
(* get_index, TransitionManager.learn and the play_game handler of         *)
(* RockPaperScissorsGame with everything it calls (play_round,             *)
(* handle_results, handle_end_game, reset_game).  Label texts written by   *)
(* update_scores and the other .config calls are presentation only and     *)
(* carry no state the game reads back; they are left out.                  *)
(*                                                                         *)
(* Probabilities are kept exactly, in units of 1/120: 1/3 is 40 units,     *)
(* transition_adjustment 0.05 is 6 units and its half is 3 units.  Every   *)
(* cell the code can produce is 40 + 6a - 3b units, i.e. congruent to      *)
(* 1 mod 3, so no cell ever sits on a guard boundary (3 or 114 units) and  *)
(* the float comparisons of the code decide as the exact ones do.          *)
(***************************************************************************)
EXTENDS Integers, Sequences, FiniteSets, TLC

VARIABLES transition_matrix, num_of_games, num_round, all_player_points,
          all_ai_points, previous_user_selection, destroyed, call, matches,
          learn_calls

vars == <<transition_matrix, num_of_games, num_round, all_player_points,
          all_ai_points, previous_user_selection, destroyed, call, matches,
          learn_calls>>

(***************************************************************************)
(* Bounds of the explored runs.                                            *)
(***************************************************************************)
MaxGames == 2
MaxMatches == 2
LongGames == 2
MaxLongMatches == 16
ThresholdGames == 11
HeadStart == 6
MaxRepeat == 16

(***************************************************************************)
(* Program constants.                                                      *)
(***************************************************************************)
One == 120
transition_adjustment == 6
EarlyScore == 10

Idx == 0..2
states == [i \in Idx |-> IF i = 0 THEN "Rock" ELSE IF i = 1 THEN "Paper" ELSE "Scissors"]
Moves == {states[i] : i \in Idx}
Inputs == Moves \cup {"Lizard"}

UniformRow == [i \in Idx |-> One \div 3]
UniformMatrix == [r \in Idx |-> UniformRow]
NoRow == [i \in Idx |-> 0]

\* check_result with the entry for (Rock, Paper) given the wrong sign
check_result_rock_paper(player_selection, ai_selection) ==
  IF <<player_selection, ai_selection>> \in
       {<<"Rock", "Scissors">>, <<"Paper", "Rock">>, <<"Scissors", "Paper">>,
        <<"Rock", "Paper">>}
  THEN 1
  ELSE IF <<player_selection, ai_selection>> \in
       {<<"Paper", "Scissors">>, <<"Scissors", "Rock">>}
  THEN -1
  ELSE 0

\* check_result: the dictionary of the six decided pairs, 0 for anything else
check_result(player_selection, ai_selection) ==
  IF <<player_selection, ai_selection>> \in
       {<<"Rock", "Scissors">>, <<"Paper", "Rock">>, <<"Scissors", "Paper">>}
  THEN 1
  ELSE IF <<player_selection, ai_selection>> \in
       {<<"Rock", "Paper">>, <<"Paper", "Scissors">>, <<"Scissors", "Rock">>}
  THEN -1
  ELSE 0

\* get_index: position in the states array, -1 for any other string
get_index(selection) ==
  IF selection = "Rock" THEN 0
  ELSE IF selection = "Paper" THEN 1
  ELSE IF selection = "Scissors" THEN 2
  ELSE -1

\* Python indexing of a length-3 array: a negative index counts from the end
PyIdx(i) == IF i < 0 THEN i + 3 ELSE i

\* the guard of learn without its test of cell j
learn_guard_no_j(m, previous_index, current_index) ==
  LET p == PyIdx(previous_index)
      i == (current_index + 1) % 3
      k == PyIdx(current_index)
  IN  /\ 2 * m[p][k] - transition_adjustment >= 0
      /\ m[p][i] + transition_adjustment <= One

\* the guard of learn on the matrix m
learn_guard(m, previous_index, current_index) ==
  LET p == PyIdx(previous_index)
      i == (current_index + 1) % 3
      j == (current_index + 2) % 3
      k == PyIdx(current_index)
  IN  /\ 2 * m[p][k] - transition_adjustment >= 0
      /\ 2 * m[p][j] - transition_adjustment >= 0
      /\ m[p][i] + transition_adjustment <= One

\* learn without its guard
learn_unguarded(m, previous_index, current_index) ==
  LET p == PyIdx(previous_index)
      i == (current_index + 1) % 3
      j == (current_index + 2) % 3
      k == PyIdx(current_index)
      half == transition_adjustment \div 2
      m1 == [m EXCEPT ![p][k] = @ - half]
      m2 == [m1 EXCEPT ![p][j] = @ - half]
  IN  [m2 EXCEPT ![p][i] = @ + transition_adjustment]

\* learn raising the cell of the current move itself
learn_target_current(m, previous_index, current_index) ==
  LET p == PyIdx(previous_index)
      i == (current_index + 1) % 3
      j == (current_index + 2) % 3
      k == PyIdx(current_index)
      half == transition_adjustment \div 2
      m1 == [m EXCEPT ![p][i] = @ - half]
      m2 == [m1 EXCEPT ![p][j] = @ - half]
      m3 == [m2 EXCEPT ![p][k] = @ + transition_adjustment]
  IN  IF /\ 2 * m[p][i] - transition_adjustment >= 0
         /\ 2 * m[p][j] - transition_adjustment >= 0
         /\ m[p][k] + transition_adjustment <= One
      THEN m3 ELSE m

\* learn applying the adjustment to every row that passes the guard
learn_every_row(m, previous_index, current_index) ==
  LET i == (current_index + 1) % 3
      j == (current_index + 2) % 3
      k == PyIdx(current_index)
      half == transition_adjustment \div 2
  IN  [q \in Idx |->
        IF learn_guard(m, q, current_index)
        THEN [x \in Idx |-> IF x = i THEN m[q][x] + transition_adjustment
                            ELSE m[q][x] - half]
        ELSE m[q]]

\* TransitionManager.learn: the matrix after the call
learn(m, previous_index, current_index) ==
  LET p == PyIdx(previous_index)
      i == (current_index + 1) % 3
      j == (current_index + 2) % 3
      k == PyIdx(current_index)
      half == transition_adjustment \div 2
      m1 == [m EXCEPT ![p][k] = @ - half]
      m2 == [m1 EXCEPT ![p][j] = @ - half]
      m3 == [m2 EXCEPT ![p][i] = @ + transition_adjustment]
  IN  IF learn_guard(m, previous_index, current_index) THEN m3 ELSE m

RECURSIVE SumTo(_, _)
SumTo(a, n) == IF n = 0 THEN 0 ELSE a[n - 1] + SumTo(a, n - 1)

\* np.sum over a points array
np_sum(a) == SumTo(a, Cardinality(DOMAIN a))

\* np.zeros(n, dtype=int)
np_zeros(n) == [s \in 0..(n - 1) |-> 0]

\* the fields of the game object, as one record
game ==
  [transition_matrix |-> transition_matrix,
   num_of_games |-> num_of_games,
   num_round |-> num_round,
   all_player_points |-> all_player_points,
   all_ai_points |-> all_ai_points,
   previous_user_selection |-> previous_user_selection]

\* reset_game keeping the points arrays of the finished match
reset_game_keep_points(g) ==
  [g EXCEPT !.num_round = 0,
            !.previous_user_selection = ""]

\* reset_game forgetting to clear the stored previous selection
reset_game_keep_previous(g) ==
  [g EXCEPT !.num_round = 0,
            !.all_player_points = np_zeros(g.num_of_games),
            !.all_ai_points = np_zeros(g.num_of_games)]

\* RockPaperScissorsGame.reset_game
reset_game(g) ==
  [g EXCEPT !.num_round = 0,
            !.all_player_points = np_zeros(g.num_of_games),
            !.all_ai_points = np_zeros(g.num_of_games),
            !.previous_user_selection = ""]

\* np.random.choice(states, p=row): the moves it can return; it raises
\* ValueError on a negative probability or a sum other than 1
choice(row) ==
  IF (\A i \in Idx : row[i] >= 0 /\ row[i] <= One) /\ row[0] + row[1] + row[2] = One
  THEN {states[i] : i \in {x \in Idx : row[x] > 0}}
  ELSE {}

\* handle_results writing every result to slot 0
handle_results_slot_zero(g, current_player_selection, ai_selection) ==
  LET result == check_result(current_player_selection, ai_selection)
  IN  [g EXCEPT !.all_player_points[0] = result,
                !.all_ai_points[0] = -result]

\* RockPaperScissorsGame.handle_results
handle_results(g, current_player_selection, ai_selection) ==
  LET result == check_result(current_player_selection, ai_selection)
  IN  [g EXCEPT !.all_player_points[g.num_round] = result,
                !.all_ai_points[g.num_round] = -result]

\* play_round with two switches: auto_reset keeps the reset at the end of a
\* match, learn_first moves the learn call in front of the sampling
play_round_variant(g, current_player_selection, ai_selection, auto_reset, learn_first) ==
  IF auto_reset /\ g.num_round = g.num_of_games
  THEN [g |-> [g EXCEPT !.num_round = 0,
                        !.all_player_points = np_zeros(g.num_of_games),
                        !.all_ai_points = np_zeros(g.num_of_games),
                        !.previous_user_selection = ""],
        branch |-> "reset", probability |-> NoRow,
        ai_selection |-> "", previous_index |-> -2, current_index |-> -2,
        error |-> "", reset |-> TRUE, guard |-> FALSE]
  ELSE LET first == g.num_round = 0
           pi == IF first THEN -2 ELSE get_index(g.previous_user_selection)
           ci == IF first THEN -2 ELSE get_index(current_player_selection)
           result == check_result(current_player_selection, ai_selection)
           learned == IF first THEN g.transition_matrix
                      ELSE IF learn_guard(g.transition_matrix, pi, ci)
                      THEN [g.transition_matrix EXCEPT ![PyIdx(pi)] =
                              [x \in Idx |-> IF x = (ci + 1) % 3
                                             THEN @[x] + transition_adjustment
                                             ELSE @[x] - transition_adjustment \div 2]]
                      ELSE g.transition_matrix
           probability == IF first THEN g.transition_matrix[0]
                          ELSE IF learn_first THEN learned[PyIdx(pi)]
                          ELSE g.transition_matrix[PyIdx(pi)]
           in_range == g.num_round \in DOMAIN g.all_player_points
           g1 == [g EXCEPT !.transition_matrix = learned,
                           !.previous_user_selection =
                              IF first \/ in_range THEN current_player_selection ELSE @]
           g3 == [g1 EXCEPT !.all_player_points[g.num_round] = result,
                            !.all_ai_points[g.num_round] = -result,
                            !.num_round = @ + 1]
       IN  [g |-> IF in_range THEN g3 ELSE g1,
            branch |-> IF first THEN "first" ELSE "later",
            probability |-> probability, ai_selection |-> ai_selection,
            previous_index |-> pi, current_index |-> ci,
            error |-> IF in_range THEN "" ELSE "IndexError",
            reset |-> FALSE,
            guard |-> ~first /\ learn_guard(g.transition_matrix, pi, ci)]

\* play_round calling learn before it samples the opponent's move
play_round_learn_first(g, current_player_selection, ai_selection) ==
  play_round_variant(g, current_player_selection, ai_selection, TRUE, TRUE)

\* play_round without the reset at num_round = num_of_games
play_round_no_auto_reset(g, current_player_selection, ai_selection) ==
  play_round_variant(g, current_player_selection, ai_selection, FALSE, FALSE)

\* RockPaperScissorsGame.play_round with the sampled move ai_selection;
\* g is the game after the call, the other fields record what the call did
play_round(g, current_player_selection, ai_selection) ==
  IF g.num_round = g.num_of_games
  THEN [g |-> reset_game(g), branch |-> "reset", probability |-> NoRow,
        ai_selection |-> "", previous_index |-> -2, current_index |-> -2,
        error |-> "", reset |-> TRUE, guard |-> FALSE]
  ELSE IF g.num_round = 0
  THEN LET g1 == [g EXCEPT !.previous_user_selection = current_player_selection]
           probability == g.transition_matrix[0]
           g2 == handle_results(g1, current_player_selection, ai_selection)
           g3 == [g2 EXCEPT !.num_round = @ + 1]
       IN  IF choice(probability) = {}
           THEN [g |-> g1, branch |-> "first", probability |-> probability,
                 ai_selection |-> "", previous_index |-> -2, current_index |-> -2,
                 error |-> "ValueError", reset |-> FALSE, guard |-> FALSE]
           ELSE IF g.num_round \notin DOMAIN g.all_player_points
           THEN [g |-> g1, branch |-> "first", probability |-> probability,
                 ai_selection |-> ai_selection, previous_index |-> -2,
                 current_index |-> -2, error |-> "IndexError", reset |-> FALSE,
                 guard |-> FALSE]
           ELSE [g |-> g3, branch |-> "first", probability |-> probability,
                 ai_selection |-> ai_selection, previous_index |-> -2,
                 current_index |-> -2, error |-> "", reset |-> FALSE, guard |-> FALSE]
  ELSE LET previous_user_selection_index == get_index(g.previous_user_selection)
           current_user_selection_index == get_index(current_player_selection)
           probability == g.transition_matrix[PyIdx(previous_user_selection_index)]
           g1 == [g EXCEPT !.transition_matrix =
                    learn(@, previous_user_selection_index, current_user_selection_index)]
           g2 == handle_results(g1, current_player_selection, ai_selection)
           g3 == [g2 EXCEPT !.previous_user_selection = current_player_selection,
                            !.num_round = @ + 1]
       IN  IF choice(probability) = {}
           THEN [g |-> g, branch |-> "later", probability |-> probability,
                 ai_selection |-> "", previous_index |-> previous_user_selection_index,
                 current_index |-> current_user_selection_index,
                 error |-> "ValueError", reset |-> FALSE,
                 guard |-> learn_guard(g.transition_matrix,
                                       previous_user_selection_index,
                                       current_user_selection_index)]
           ELSE IF g.num_round \notin DOMAIN g.all_player_points
           THEN [g |-> g1, branch |-> "later", probability |-> probability,
                 ai_selection |-> ai_selection,
                 previous_index |-> previous_user_selection_index,
                 current_index |-> current_user_selection_index,
                 error |-> "IndexError", reset |-> FALSE,
                 guard |-> learn_guard(g.transition_matrix,
                                       previous_user_selection_index,
                                       current_user_selection_index)]
           ELSE [g |-> g3, branch |-> "later", probability |-> probability,
                 ai_selection |-> ai_selection,
                 previous_index |-> previous_user_selection_index,
                 current_index |-> current_user_selection_index,
                 error |-> "", reset |-> FALSE,
                 guard |-> learn_guard(g.transition_matrix,
                                       previous_user_selection_index,
                                       current_user_selection_index)]

Max2(a, b) == IF a >= b THEN a ELSE b

\* handle_end_game looking at the player's total only
handle_end_game_player_only(g, play_again) ==
  LET max_score == np_sum(g.all_player_points)
  IN  IF g.num_round = g.num_of_games
      THEN [g |-> g, game_over |-> TRUE, asked |-> FALSE, reset |-> FALSE,
            destroyed |-> FALSE]
      ELSE IF max_score = EarlyScore
      THEN IF play_again
           THEN [g |-> reset_game(g), game_over |-> TRUE, asked |-> TRUE,
                 reset |-> TRUE, destroyed |-> FALSE]
           ELSE [g |-> g, game_over |-> TRUE, asked |-> TRUE, reset |-> FALSE,
                 destroyed |-> TRUE]
      ELSE [g |-> g, game_over |-> FALSE, asked |-> FALSE, reset |-> FALSE,
            destroyed |-> FALSE]

\* handle_end_game without the test of the round count
handle_end_game_threshold_only(g, play_again) ==
  LET max_score == Max2(np_sum(g.all_ai_points), np_sum(g.all_player_points))
  IN  IF max_score = EarlyScore
      THEN IF play_again
           THEN [g |-> reset_game(g), game_over |-> TRUE, asked |-> TRUE,
                 reset |-> TRUE, destroyed |-> FALSE]
           ELSE [g |-> g, game_over |-> TRUE, asked |-> TRUE, reset |-> FALSE,
                 destroyed |-> TRUE]
      ELSE [g |-> g, game_over |-> FALSE, asked |-> FALSE, reset |-> FALSE,
            destroyed |-> FALSE]

\* RockPaperScissorsGame.handle_end_game; play_again is the answer to the
\* "Play Again" question, asked only on the early-termination branch
handle_end_game(g, play_again) ==
  LET max_score == Max2(np_sum(g.all_ai_points), np_sum(g.all_player_points))
  IN  IF g.num_round = g.num_of_games
      THEN [g |-> g, game_over |-> TRUE, asked |-> FALSE, reset |-> FALSE,
            destroyed |-> FALSE]
      ELSE IF max_score = EarlyScore
      THEN IF play_again
           THEN [g |-> reset_game(g), game_over |-> TRUE, asked |-> TRUE,
                 reset |-> TRUE, destroyed |-> FALSE]
           ELSE [g |-> g, game_over |-> TRUE, asked |-> TRUE, reset |-> FALSE,
                 destroyed |-> TRUE]
      ELSE [g |-> g, game_over |-> FALSE, asked |-> FALSE, reset |-> FALSE,
            destroyed |-> FALSE]

NoCall ==
  [op |-> "init", selection |-> "", branch |-> "", probability |-> NoRow,
   ai_selection |-> "", previous_index |-> -2, current_index |-> -2,
   error |-> "", reset |-> FALSE, guard |-> FALSE, game_over |-> FALSE,
   asked |-> FALSE, play_again |-> FALSE]

\* the state after RockPaperScissorsGame(number_of_games)
InitGame(n) ==
  /\ transition_matrix = UniformMatrix
  /\ num_of_games = n
  /\ num_round = 0
  /\ all_player_points = np_zeros(n)
  /\ all_ai_points = np_zeros(n)
  /\ previous_user_selection = ""
  /\ destroyed = FALSE
  /\ call = NoCall
  /\ matches = 0
  /\ learn_calls = 0

\* RockPaperScissorsGame.play_game: play_round, update_scores, handle_end_game.
\* An exception in play_round ends the Tk callback there.
play_game(current_player_selection) ==
  /\ ~destroyed
  /\ \E ai \in Moves, play_again \in BOOLEAN :
     \E r \in {play_round(game, current_player_selection, ai)} :
     \E e \in {IF r.error = ""
               THEN handle_end_game(r.g, play_again)
               ELSE [g |-> r.g, game_over |-> FALSE, asked |-> FALSE,
                     reset |-> FALSE, destroyed |-> FALSE]} :
           /\ r.ai_selection \in {"", ai}
           /\ r.ai_selection = ai => ai \in choice(r.probability)
           /\ r.ai_selection = "" => ai = "Rock"
           /\ e.asked \/ ~play_again
           /\ transition_matrix' = e.g.transition_matrix
           /\ num_of_games' = e.g.num_of_games
           /\ num_round' = e.g.num_round
           /\ all_player_points' = e.g.all_player_points
           /\ all_ai_points' = e.g.all_ai_points
           /\ previous_user_selection' = e.g.previous_user_selection
           /\ destroyed' = e.destroyed
           /\ matches' = IF r.reset \/ e.reset THEN matches + 1 ELSE matches
           /\ call' = [op |-> "play_game", selection |-> current_player_selection,
                       branch |-> r.branch, probability |-> r.probability,
                       ai_selection |-> r.ai_selection,
                       previous_index |-> r.previous_index,
                       current_index |-> r.current_index,
                       error |-> r.error, reset |-> r.reset \/ e.reset,
                       guard |-> r.guard,
                       game_over |-> e.game_over, asked |-> e.asked,
                       play_again |-> play_again]
           /\ UNCHANGED learn_calls

(***************************************************************************)
(* Spec: matches of 1..MaxGames rounds, any button or malformed input.     *)
(***************************************************************************)
Init == \E n \in 1..MaxGames : InitGame(n)

Next == \E sel \in Inputs : matches < MaxMatches /\ play_game(sel)

Spec == Init /\ [][Next]_vars

(***************************************************************************)
(* SpecLong: many short matches in a row, the human repeating one move     *)
(* within each match, so that the learned rows reach the guard's limit     *)
(* (the matrix outlives reset_game).                                       *)
(***************************************************************************)
InitLong == InitGame(LongGames)

NextLong ==
  \E sel \in Moves :
    /\ matches < MaxLongMatches
    /\ previous_user_selection \in {"", sel}
    /\ play_game(sel)

SpecLong == InitLong /\ [][NextLong]_vars

(***************************************************************************)
(* SpecThreshold: one match of ThresholdGames rounds, entered after the    *)
(* first HeadStart rounds were all won by the same side (the human played  *)
(* Rock, the sampler returned Scissors every time, or Paper every time),   *)
(* so that the early-termination score is within reach.                    *)
(***************************************************************************)
RECURSIVE AfterRounds(_, _, _, _)
AfterRounds(g, k, sel, ai) ==
  IF k = 0 THEN g ELSE play_round(AfterRounds(g, k - 1, sel, ai), sel, ai).g

NewGame(n) ==
  [transition_matrix |-> UniformMatrix,
   num_of_games |-> n,
   num_round |-> 0,
   all_player_points |-> np_zeros(n),
   all_ai_points |-> np_zeros(n),
   previous_user_selection |-> ""]

InitThreshold ==
  \E ai \in {"Scissors", "Paper"} :
  \E g \in {AfterRounds(NewGame(ThresholdGames), HeadStart, "Rock", ai)} :
    /\ transition_matrix = g.transition_matrix
    /\ num_of_games = g.num_of_games
    /\ num_round = g.num_round
    /\ all_player_points = g.all_player_points
    /\ all_ai_points = g.all_ai_points
    /\ previous_user_selection = g.previous_user_selection
    /\ destroyed = FALSE
    /\ call = [NoCall EXCEPT !.op = "play_game", !.selection = "Rock",
                             !.ai_selection = ai, !.branch = "later"]
    /\ matches = 0
    /\ learn_calls = 0

NextThreshold == \E sel \in Moves : matches < 1 /\ play_game(sel)

SpecThreshold == InitThreshold /\ [][NextThreshold]_vars

(***************************************************************************)
(* SpecLearn: TransitionManager.learn called directly with every pair of   *)
(* indices play_round can pass (get_index yields -1..2), on one row at a   *)
(* time: a call is explored while the other rows are still uniform.        *)
(***************************************************************************)
OtherRowsUniform(p) ==
  \A q \in Idx : q # PyIdx(p) => transition_matrix[q] = UniformRow

learn_call(p, c) ==
  /\ transition_matrix' = learn(transition_matrix, p, c)
  /\ call' = [NoCall EXCEPT !.op = "learn", !.previous_index = p,
                            !.current_index = c,
                            !.guard = learn_guard(transition_matrix, p, c)]
  /\ learn_calls' = IF learn_calls < MaxRepeat THEN learn_calls + 1 ELSE learn_calls
  /\ UNCHANGED <<num_of_games, num_round, all_player_points, all_ai_points,
                 previous_user_selection, destroyed, matches>>

NextLearn == \E p \in -1..2, c \in -1..2 : OtherRowsUniform(p) /\ learn_call(p, c)

SpecLearn == InitGame(1) /\ [][NextLearn]_vars

(***************************************************************************)
(* SpecRepeat: learn called again and again with one and the same pair of  *)
(* legal indices, starting from the uniform matrix.                        *)
(***************************************************************************)
NextRepeat ==
  \E p \in Idx, c \in Idx :
    /\ learn_calls < MaxRepeat
    /\ call.op = "learn" => (p = call.previous_index /\ c = call.current_index)
    /\ learn_call(p, c)

SpecRepeat == InitGame(1) /\ [][NextRepeat]_vars /\ WF_vars(NextRepeat)

(***************************************************************************)
(* SpecFair: the matches of SpecLong with a human who keeps clicking a      *)
(* button (weak fairness of the click).                                    *)
(***************************************************************************)
SpecFair == InitLong /\ [][NextLong]_vars /\ WF_vars(NextLong)

(***************************************************************************)
(* Properties                                                              *)
(***************************************************************************)
Half == transition_adjustment \div 2

RowInUnit(row) ==
  /\ \A i \in Idx : row[i] >= 0 /\ row[i] <= One
  /\ row[0] + row[1] + row[2] = One

\* the row after the adjustment for current move c (an index in 0..2): the
\* cell of the move that beats c gains the step, the other two lose half each
Adjusted(row, c) ==
  [x \in Idx |-> IF x = (c + 1) % 3 THEN row[x] + transition_adjustment
                 ELSE row[x] - Half]

\* C1: every row of the transition matrix sums to exactly 1 (120 units) and
\* every cell lies in [0,1], after any run of rounds, learn updates and resets.
C1_MatrixInvariant == \A r \in Idx : RowInUnit(transition_matrix[r])

\* a round played in a later match whose learn call was refused by the guard
C1_Witness ==
  /\ matches > 0
  /\ call.branch = "later"
  /\ call.error = ""
  /\ ~call.guard

C3_GuardedUpdate ==
  [][call'.op = "learn"
     => LET p == PyIdx(call'.previous_index)
            c == PyIdx(call'.current_index)
        IN  /\ transition_matrix' # transition_matrix
                 => /\ RowInUnit(Adjusted(transition_matrix[p], c))
                    /\ transition_matrix' =
                         [transition_matrix EXCEPT ![p] = Adjusted(@, c)]
            /\ ~learn_guard(transition_matrix, call'.previous_index,
                            call'.current_index)
                 => transition_matrix' = transition_matrix]_vars

\* a learn call refused by the guard, the matrix having been changed before
C3_Witness ==
  /\ call.op = "learn"
  /\ ~call.guard
  /\ transition_matrix # UniformMatrix

\* C4 as stated: a reset leaves the transition matrix uniform.
C4_ResetUniform == [][call'.reset => transition_matrix' = UniformMatrix]_vars

\* C5: a reset sets the round index to 0, clears every round record (both
\* totals 0) and clears the stored previous move, in the same step.
C5_ResetClears ==
  [][call'.reset
     => /\ num_round' = 0
        /\ all_player_points' = np_zeros(num_of_games)
        /\ all_ai_points' = np_zeros(num_of_games)
        /\ np_sum(all_player_points') = 0
        /\ np_sum(all_ai_points') = 0
        /\ previous_user_selection' = ""]_vars

\* a reset chosen in the "Play Again" dialog after a side reached 10
C5_Witness == call.reset /\ call.game_over /\ call.asked /\ num_round = 0

\* C6: a play_game call declares game over exactly when it played a round
\* and, after that round, the round index equals num_of_games or a side's
\* total equals 10.
C6_GameOver ==
  [][call'.op = "play_game"
     => LET played == call'.branch \in {"first", "later"} /\ call'.error = ""
            result == check_result(call'.selection, call'.ai_selection)
            player == np_sum(all_player_points) + result
            ai == np_sum(all_ai_points) - result
        IN  call'.game_over <=>
              (played /\ (num_round + 1 = num_of_games
                           \/ player = EarlyScore \/ ai = EarlyScore))]_vars

\* game over declared by the early-termination score before the last round
C6_Witness == call.game_over /\ call.asked

\* C7 as stated: the first round of every match samples from (1/3,1/3,1/3).
C7_FirstUniform ==
  [][call'.branch = "first" => call'.probability = UniformRow]_vars

\* C8 as stated: a submission that is no legal move fails with
\* InvalidMoveError and changes nothing.
C8_InvalidRejected ==
  [][(call'.op = "play_game" /\ call'.selection \notin Moves)
     => /\ call'.error = "InvalidMoveError"
        /\ UNCHANGED <<num_round, all_player_points, all_ai_points,
                       previous_user_selection, transition_matrix>>]_vars

\* the cyclic rule: a beats b when a's index is b's index plus one, mod 3
Cyclic(a, b) ==
  IF a = b THEN 0
  ELSE IF get_index(a) = (get_index(b) + 1) % 3 THEN 1 ELSE -1

\* C9: the result recorded for a round of legal moves (human, opponent) is
\* +1 for (Rock,Scissors), (Paper,Rock), (Scissors,Paper), -1 for the reversed
\* pairs, 0 for equal moves, and is the negation of the result of the
\* swapped pair.
C9_Outcome ==
  [][(/\ call'.op = "play_game"
      /\ call'.branch \in {"first", "later"}
      /\ call'.error = ""
      /\ ~call'.reset
      /\ call'.selection \in Moves)
     => LET h == call'.selection
            a == call'.ai_selection
            r == all_player_points'[num_round]
        IN  /\ r = Cyclic(h, a)
            /\ r = 1 <=> <<h, a>> \in {<<"Rock", "Scissors">>, <<"Paper", "Rock">>,
                                        <<"Scissors", "Paper">>}
            /\ r = 0 <=> h = a
            /\ check_result(a, h) = -r
            /\ check_result(h, h) = 0]_vars

\* the human lost a round with Rock against Paper
C9_Witness ==
  /\ call.selection = "Rock"
  /\ call.ai_selection = "Paper"
  /\ num_round > 0
  /\ all_player_points[num_round - 1] = -1

\* no further learn with the repeated pair changes the matrix
Fixed ==
  /\ call.op = "learn"
  /\ learn(transition_matrix, call.previous_index, call.current_index)
       = transition_matrix

Largest(row, x) == \A y \in Idx : row[x] >= row[y]

C11_ScoresMirror ==
  /\ np_sum(all_ai_points) = -np_sum(all_player_points)
  /\ \A s \in DOMAIN all_player_points :
       /\ all_ai_points[s] = -all_player_points[s]
       /\ s >= num_round => all_player_points[s] = 0

\* a decided round played in a match that follows a reset
C11_Witness ==
  /\ matches > 0
  /\ num_round = 1
  /\ np_sum(all_player_points) = 1
  /\ np_sum(all_ai_points) = -1

\* C12: in a round that is not the first (the stored previous move legal),
\* the distribution the opponent's move is drawn from is the row of the
\* previous human move as it stands before the call, whatever move is
\* submitted now; runs that differ only in the current move draw from the
\* same distribution.
C12_SampleBeforeLearn ==
  [][(/\ call'.op = "play_game"
      /\ call'.branch = "later"
      /\ previous_user_selection \in Moves)
     => /\ call'.probability =
             transition_matrix[get_index(previous_user_selection)]
        /\ call'.ai_selection \in
             {states[x] : x \in {y \in Idx :
                transition_matrix[get_index(previous_user_selection)][y] > 0}}]_vars

\* a later round whose learn call changed the very row that was sampled
C12_Witness ==
  /\ call.branch = "later"
  /\ call.guard
  /\ call.previous_index \in Idx
  /\ call.probability # transition_matrix[call.previous_index]

\* C13: a submission made while the round index equals num_of_games plays no
\* round: round index 0, points and previous move cleared, nothing recorded
\* for the submitted move, no learn call, no game over.
C13_AutoReset ==
  [][(call'.op = "play_game" /\ num_round = num_of_games)
     => /\ call'.branch = "reset"
        /\ num_round' = 0
        /\ all_player_points' = np_zeros(num_of_games)
        /\ all_ai_points' = np_zeros(num_of_games)
        /\ previous_user_selection' = ""
        /\ transition_matrix' = transition_matrix
        /\ call'.ai_selection = ""
        /\ ~call'.game_over]_vars

\* the click after the last round of a match has been handled
C13_Witness ==
  /\ call.branch = "reset"
  /\ call.selection \in Moves
  /\ matches = 1

\* C14: a played round (first or later, not followed by a reset in the same
\* call) raises the round index by exactly 1, writes the result to the slot
\* of the old round index and to no other slot, and leaves the stored
\* previous move equal to the submitted one; the round index goes down only
\* in a call that resets.
C14_RoundStep ==
  [][/\ (/\ call'.op = "play_game"
          /\ call'.branch \in {"first", "later"}
          /\ ~call'.reset)
         => LET result == check_result(call'.selection, call'.ai_selection)
            IN  /\ num_round' = num_round + 1
                /\ num_round \in DOMAIN all_player_points
                /\ all_player_points' =
                     [all_player_points EXCEPT ![num_round] = result]
                /\ all_ai_points' = [all_ai_points EXCEPT ![num_round] = -result]
                /\ previous_user_selection' = call'.selection
     /\ num_round' < num_round => call'.reset]_vars

\* the second round of a match has been played and decided
C14_Witness ==
  /\ call.branch = "later"
  /\ num_round = 2
  /\ all_player_points[1] = 1
  /\ previous_user_selection = call.selection

\* C15: a later round (the only caller of learn) changes no row other than
\* the row of the previous move, and a first round leaves the matrix as it is.
C15_OtherRows ==
  [][/\ call'.branch = "later"
         => \A q \in Idx :
              q # PyIdx(get_index(previous_user_selection))
                => transition_matrix'[q] = transition_matrix[q]
     /\ call'.branch = "first" => transition_matrix' = transition_matrix]_vars

\* a learn call went through while another row was already learned
C15_Witness ==
  /\ call.branch = "later"
  /\ call.guard
  /\ \E q \in Idx :
       /\ q # PyIdx(call.previous_index)
       /\ transition_matrix[q] # UniformRow

\* C16: neither total ever exceeds 10, and a round is played only while both
\* totals are below 10.
C16_ScoreCap ==
  /\ [](np_sum(all_player_points) <= EarlyScore /\ np_sum(all_ai_points) <= EarlyScore)
  /\ [][(call'.op = "play_game" /\ call'.branch \in {"first", "later"})
         => /\ np_sum(all_player_points) < EarlyScore
            /\ np_sum(all_ai_points) < EarlyScore]_vars

\* a side reached 10 in the last round of the match: the game stays open
\* with that total until the next click
C16_Witness ==
  /\ Max2(np_sum(all_player_points), np_sum(all_ai_points)) = EarlyScore
  /\ num_round = num_of_games
  /\ ~destroyed

\* C17: the round index stays within 0..num_of_games, the points arrays keep
\* their num_of_games slots, and no round writes past the last slot (no
\* IndexError; the slot written is the round index minus one).
C17_RoundRange ==
  /\ num_round \in 0..num_of_games
  /\ DOMAIN all_player_points = 0..(num_of_games - 1)
  /\ DOMAIN all_ai_points = 0..(num_of_games - 1)
  /\ call.error # "IndexError"
  /\ (call.branch \in {"first", "later"} /\ ~call.reset)
       => (num_round - 1) \in DOMAIN all_player_points

\* the last slot of a two-round match has been written
C17_Witness ==
  /\ call.branch = "later"
  /\ num_of_games = 2
  /\ num_round = num_of_games
  /\ all_player_points[num_of_games - 1] # 0

\* C18: while the human keeps submitting legal moves, every match that is
\* under way reaches game over, and it does so no later than its
\* num_of_games-th played round: the round index never passes num_of_games
\* and the call that brings it there declares game over.
C18_MatchEnds ==
  /\ [](num_round <= num_of_games)
  /\ [](num_round = num_of_games => call.game_over)
  /\ (matches < MaxLongMatches /\ ~destroyed /\ ~call.game_over) ~> call.game_over

\* a match after the first has reached game over in its last round
C18_Witness ==
  /\ matches = 2
  /\ call.game_over
  /\ num_round = num_of_games

====
